---- MODULE Spec2Model ----
(***************************************************************************)
(* Encrypted data logging on OPTIGA Trust M (main.c): the control thread   *)
(* of app_main (boot, key provisioning, command loop) against the          *)
(* secure element's asynchronous completion callback and the FAT file.     *)
(***************************************************************************)
EXTENDS Integers, Sequences, FiniteSets, TLC

(* ------------------------------------------------------------------ *)
(* Program constants                                                    *)
(* ------------------------------------------------------------------ *)
AES_IV_BYTES == 16
PLAINTEXT_MAX == 64
RECORD_BYTES == AES_IV_BYTES + PLAINTEXT_MAX
DumpBufBytes == 32
MetadataBufBytes == 64

(* ------------------------------------------------------------------ *)
(* Bounds of the model                                                  *)
(* ------------------------------------------------------------------ *)
\* append commands accepted in one boot
MaxSeq == 2
\* byte count a short fwrite may return
ShortWriteBytes == 40

(* ------------------------------------------------------------------ *)
(* Environment value sets                                               *)
(* ------------------------------------------------------------------ *)
\* uptimes (ms) esp_timer_get_time() / 1000 may yield, in clock order
Uptimes == {532, 1000}
\* metadata lengths the secure element may report for slot 0xE200
MetadataLens == {0, 8}
\* ciphertext lengths the secure element may report
CipherLens == {48, PLAINTEXT_MAX}
\* bytes fwrite may report as written for one record
WriteCounts == {0, ShortWriteBytes, RECORD_BYTES}
\* a well-formed record left in the file by an earlier boot
OldRecord == [i \in 1..RECORD_BYTES |-> 170]

Kinds == {"rng", "read_metadata", "write_metadata", "generate_key", "encrypt"}

Min(a, b) == IF a < b THEN a ELSE b

\* what an automatic buffer of n bytes holds before anything is stored in it;
\* no byte of it is read by the program before it has been written
Uninit(n) == [i \in 1..n |-> 204]

(* ------------------------------------------------------------------ *)
(* Pure helpers                                                         *)
(* ------------------------------------------------------------------ *)
RECURSIVE Digits(_)
\* decimal rendering of a non-negative integer (%lu / %lld), as ASCII codes
Digits(n) == IF n < 10 THEN <<48 + n>> ELSE Digits(n \div 10) \o <<48 + (n % 10)>>

\* the same message with longer key names:
\* "{\"sequence_number\":%lu,\"uptime_milliseconds\":%lld}"
FormatDigits_LongKeys(seq_digits, uptime_digits) ==
    <<123, 34, 115, 101, 113, 117, 101, 110, 99, 101, 95, 110, 117, 109, 98, 101, 114, 34, 58>>
    \o seq_digits
    \o <<44, 34, 117, 112, 116, 105, 109, 101, 95, 109, 105, 108, 108, 105, 115, 101, 99, 111, 110, 100, 115, 34, 58>>
    \o uptime_digits \o <<125>>

\* the format string "{\"seq\":%lu,\"uptime_ms\":%lld}" around the decimal
\* renderings of its two arguments
FormatDigits(seq_digits, uptime_digits) ==
    <<123, 34, 115, 101, 113, 34, 58>> \o seq_digits
    \o <<44, 34, 117, 112, 116, 105, 109, 101, 95, 109, 115, 34, 58>>
    \o uptime_digits \o <<125>>

\* the two arguments of snprintf in each other's place
FormatMsg_SwapArgs(seq, uptime) == FormatDigits(Digits(uptime), Digits(seq))

\* snprintf's output for a sequence number and an uptime
FormatMsg(seq, uptime) == FormatDigits(Digits(seq), Digits(uptime))

RECURSIVE ParseDec(_, _, _)
\* the decimal number that starts at position i of buf
ParseDec(buf, i, acc) ==
    IF i <= Len(buf) /\ buf[i] \in 48..57
    THEN ParseDec(buf, i + 1, acc * 10 + (buf[i] - 48))
    ELSE acc

\* snprintf(buf, size, ...): at most size-1 characters and a NUL are stored,
\* the untruncated length is returned
Snprintf(size, s) ==
    [buf |-> [i \in 1..size |->
                 IF i <= Min(Len(s), size - 1) THEN s[i]
                 ELSE IF i = Min(Len(s), size - 1) + 1 THEN 0
                 ELSE Uninit(size)[i]],
     ret |-> Len(s)]

\* the copy without the memset: the tail keeps what the buffer held
PadPlaintext_NoMemset(plaintext, pt_len) ==
    [i \in 1..PLAINTEXT_MAX |-> IF i <= pt_len THEN plaintext[i] ELSE Uninit(PLAINTEXT_MAX)[i]]

\* memset(pt_buf, 0, 64); memcpy(pt_buf, plaintext, pt_len)
PadPlaintext(plaintext, pt_len) ==
    [i \in 1..PLAINTEXT_MAX |-> IF i <= pt_len THEN plaintext[i] ELSE 0]

\* memcpy(record, iv, 16); memcpy(record + 16, ciphertext, 64)
MakeRecord(ivb, ct) ==
    [i \in 1..RECORD_BYTES |-> IF i <= AES_IV_BYTES THEN ivb[i] ELSE ct[i - AES_IV_BYTES]]

\* the file opened "wb" instead of "ab": the write replaces the content
StoreWrite_Trunc(f, rec, n) == SubSeq(rec, 1, n)

\* the file opened "r+b" instead of "ab": the write lands at offset 0
StoreWrite_Rewind(f, rec, n) ==
    SubSeq(rec, 1, n) \o SubSeq(f, Min(n, Len(f)) + 1, Len(f))

\* fopen(LOG_FILE_PATH, "ab"); fwrite(record, 1, 80, f) storing n bytes; fclose
StoreWrite(f, rec, n) == f \o SubSeq(rec, 1, n)

\* the stub TRNG: the k-th fill returns 16 sequential bytes starting at 16*k
RngStub(k) == [i \in 1..AES_IV_BYTES |-> (AES_IV_BYTES * k + i - 1) % 256]

\* the stub cipher: every byte of the 64-byte input XOR 0xFF
StubCipher(buf) == [i \in 1..Len(buf) |-> 255 - buf[i]]

RECURSIVE Chunks_DropTail(_)
\* a read loop that goes on only while the buffer was filled
Chunks_DropTail(f) ==
    IF Len(f) < DumpBufBytes THEN <<>>
    ELSE <<SubSeq(f, 1, DumpBufBytes)>>
         \o Chunks_DropTail(SubSeq(f, DumpBufBytes + 1, Len(f)))

RECURSIVE Chunks(_)
\* the fread loop of print_log_file_hex: successive chunks of at most 32 bytes
Chunks(f) ==
    IF Len(f) = 0 THEN <<>>
    ELSE <<SubSeq(f, 1, Min(Len(f), DumpBufBytes))>>
         \o Chunks(SubSeq(f, Min(Len(f), DumpBufBytes) + 1, Len(f)))

(* ------------------------------------------------------------------ *)
(* State                                                                *)
(* ------------------------------------------------------------------ *)
VARIABLES
    pc,                    \* position of the control thread
    generate_key_on_boot,  \* GENERATE_KEY_ON_BOOT of this build
    s_optiga_status,       \* "SUCCESS" | "BUSY" | "ERROR"
    s_log_seq,
    file,                  \* bytes of LOG_FILE_PATH
    pending,               \* operation accepted by the secure element, not yet completed
    rng_count,             \* fills the stub TRNG has served
    clock,                 \* last uptime read
    metadata_len,
    msg, written,          \* locals of append_encrypted_record
    iv, pt_buf, ciphertext, cipher_len, record,   \* locals of encrypt_record
    prov,                  \* "Pending" | "Ready" | "Failed"
    submits,               \* per kind: requests handed to the driver this boot
    wm_ok,                 \* a write-metadata completed with Success
    boot_faults,           \* what the secure element refused or failed while provisioning
    cmd_faults,            \* what it refused or failed during the command
    cmd,                   \* command being (or last) processed
    cmd_submits,           \* per kind: requests handed to the driver by that command
    cmd_file,              \* file content when that command started
    enc_result,            \* what encrypt_record returned: "none" | "ok" | "failed"
    store_result,          \* outcome of the storage step in that command
    opened_w,              \* that command opened the file for writing
    log,                   \* messages that command logged, <<level, text>>
    dump_out,              \* chunks that command handed to the hex dump
    rng_value,             \* value delivered by the RNG fill of that command
    last_iv,               \* IV of the previous successfully encoded record
    ok_appends,            \* appends that encoded, opened and wrote all 80 bytes
    short_bytes,           \* bytes left by appends that wrote fewer than 80
    cleared,               \* a clear truncated the file this boot
    file0,                 \* file content at boot
    trail,                 \* how far the commands so far follow clear, dump, append, dump
    prev_failed            \* the command before the current one failed

progVars == <<pc, generate_key_on_boot, s_optiga_status, s_log_seq, file, pending,
              rng_count, clock, metadata_len, msg, written, iv, pt_buf, ciphertext,
              cipher_len, record>>
obsVars == <<prov, submits, wm_ok, boot_faults, cmd_faults, cmd, cmd_submits, cmd_file, enc_result,
             store_result, opened_w, log, dump_out, rng_value, last_iv, ok_appends,
             short_bytes, cleared, file0, trail, prev_failed>>
vars == <<progVars, obsVars>>

NoSubmits == [k \in Kinds |-> 0]

Init ==
    /\ pc = "boot"
    /\ generate_key_on_boot \in BOOLEAN
    /\ s_optiga_status = "SUCCESS"
    /\ s_log_seq = 0
    /\ file \in {<<>>, OldRecord}
    /\ pending = "none"
    /\ rng_count = 0
    /\ clock = 0
    /\ metadata_len = MetadataBufBytes
    /\ msg = Uninit(PLAINTEXT_MAX) /\ written = 0
    /\ iv = Uninit(AES_IV_BYTES)
    /\ pt_buf = Uninit(PLAINTEXT_MAX)
    /\ ciphertext = Uninit(PLAINTEXT_MAX)
    /\ cipher_len = 0
    /\ record = Uninit(RECORD_BYTES)
    /\ prov = "Pending"
    /\ submits = NoSubmits
    /\ wm_ok = FALSE
    /\ boot_faults = <<>>
    /\ cmd_faults = {}
    /\ cmd = "none"
    /\ cmd_submits = NoSubmits
    /\ cmd_file = file
    /\ enc_result = "none"
    /\ store_result = "none"
    /\ opened_w = FALSE
    /\ log = <<>>
    /\ dump_out = <<>>
    /\ rng_value = <<>>
    /\ last_iv = <<>>
    /\ ok_appends = 0
    /\ short_bytes = 0
    /\ cleared = FALSE
    /\ file0 = file
    /\ trail = 0
    /\ prev_failed = FALSE


(* ------------------------------------------------------------------ *)
(* Frames                                                               *)
(* ------------------------------------------------------------------ *)
appLocals == <<msg, written>>
encLocals == <<iv, pt_buf, ciphertext, cipher_len, record>>
fileObs == <<last_iv, ok_appends, short_bytes, cleared, file0, trail, prev_failed>>

Bump(f, k) == [f EXCEPT ![k] = @ + 1]

\* a refusal or failure of the secure element, noted where it happens
NoteFault(f) ==
    IF prov = "Pending"
    THEN boot_faults' = Append(boot_faults, f) /\ cmd_faults' = cmd_faults
    ELSE cmd_faults' = cmd_faults \cup {f} /\ boot_faults' = boot_faults

(* ------------------------------------------------------------------ *)
(* Crypto engine adapter                                                *)
(* ------------------------------------------------------------------ *)
\* a request made without the status being set first
MarkBusy_Skip(next) ==
    /\ s_optiga_status' = s_optiga_status
    /\ pc' = next
    /\ UNCHANGED <<generate_key_on_boot, s_log_seq, file, pending, rng_count, clock,
                   metadata_len, msg, written, iv, ciphertext, record, obsVars>>

\* s_optiga_status = OPTIGA_LIB_BUSY, the statement before every request
MarkBusy(next) ==
    /\ s_optiga_status' = "BUSY"
    /\ pc' = next
    /\ UNCHANGED <<generate_key_on_boot, s_log_seq, file, pending, rng_count, clock,
                   metadata_len, msg, written, iv, ciphertext, record, obsVars>>

\* the request handed to the driver, which returns OPTIGA_LIB_SUCCESS: it is
\* outstanding until the driver runs the callback
DriverAccepts(k, next) ==
    /\ pending' = k
    /\ pc' = next
    /\ submits' = Bump(submits, k)
    /\ cmd_submits' = IF cmd \in {"append", "encode"} THEN Bump(cmd_submits, k)
                      ELSE cmd_submits
    /\ UNCHANGED <<boot_faults, cmd_faults>>

\* the request handed to the driver, which returns an error: nothing is outstanding
DriverRejects(k) ==
    /\ pending' = pending
    /\ submits' = Bump(submits, k)
    /\ cmd_submits' = IF cmd \in {"append", "encode"} THEN Bump(cmd_submits, k)
                      ELSE cmd_submits
    /\ NoteFault(<<k, "rejected">>)

\* a wait that returns without polling the status
OptigaWaitReturns_NoPoll == TRUE

\* a wait that polls until the status is Success
OptigaWaitReturns_UntilSuccess == s_optiga_status = "SUCCESS"

\* optiga_wait(): leaves the poll loop once the status is not BUSY
OptigaWaitReturns == s_optiga_status # "BUSY"
\* the wait reporting success for any completion
OptigaWaitResult_AnyCompletion == TRUE

\* optiga_wait(): its return value
OptigaWaitResult == (s_optiga_status = "SUCCESS")

\* a callback that does not store the status it is given
CallbackStatus_Stale(return_status) == s_optiga_status

\* optiga_callback: s_optiga_status = return_status
CallbackStatus(return_status) == return_status

\* optiga_callback, run by the driver when an accepted request completes; the
\* driver has filled the request's output buffers before a Success
OptigaCallback ==
    /\ pending # "none"
    /\ \E st \in {"SUCCESS", "ERROR"}, ml \in MetadataLens, cl \in CipherLens :
        /\ s_optiga_status' = CallbackStatus(st)
        /\ pending' = "none"
        /\ metadata_len' = IF pending = "read_metadata" /\ st = "SUCCESS" THEN ml
                           ELSE metadata_len
        /\ iv' = IF pending = "rng" /\ st = "SUCCESS" THEN RngStub(rng_count) ELSE iv
        /\ rng_value' = IF pending = "rng" /\ st = "SUCCESS" THEN RngStub(rng_count)
                        ELSE rng_value
        /\ rng_count' = IF pending = "rng" /\ st = "SUCCESS" THEN rng_count + 1
                        ELSE rng_count
        /\ cipher_len' = IF pending = "encrypt" /\ st = "SUCCESS" THEN cl ELSE cipher_len
        /\ ciphertext' = IF pending = "encrypt" /\ st = "SUCCESS"
                         THEN [i \in 1..PLAINTEXT_MAX |->
                                  IF i <= cl THEN StubCipher(pt_buf)[i] ELSE ciphertext[i]]
                         ELSE ciphertext
        /\ wm_ok' = IF pending = "write_metadata" /\ st = "SUCCESS" THEN TRUE ELSE wm_ok
        /\ IF st = "ERROR" THEN NoteFault(<<pending, "error">>)
           ELSE IF pending = "read_metadata" /\ ml = 0 THEN NoteFault(<<pending, "empty">>)
           ELSE IF pending = "encrypt" /\ cl # PLAINTEXT_MAX
           THEN NoteFault(<<pending, "bad_len">>)
           ELSE UNCHANGED <<boot_faults, cmd_faults>>
    /\ UNCHANGED <<pc, generate_key_on_boot, s_log_seq, file, clock, msg, written,
                   pt_buf, record, prov, submits, cmd, cmd_submits,
                   cmd_file, enc_result, store_result, opened_w, log, dump_out,
                   fileObs>>

\* what a statement between a request and its result leaves alone
CallFrame == UNCHANGED <<generate_key_on_boot, s_optiga_status, s_log_seq, file,
                         rng_count, clock, metadata_len, appLocals, encLocals, wm_ok,
                         cmd, cmd_file, store_result, opened_w, dump_out, rng_value,
                         fileObs>>

WaitFrame == UNCHANGED <<generate_key_on_boot, s_optiga_status, s_log_seq, file, pending,
                         rng_count, clock, metadata_len, appLocals, iv, pt_buf,
                         ciphertext, cipher_len, submits, cmd_submits, wm_ok,
                         boot_faults, cmd_faults, cmd, cmd_file, store_result, opened_w,
                         dump_out, rng_value, fileObs>>

(* ------------------------------------------------------------------ *)
(* Boot and key provisioning                                            *)
(* ------------------------------------------------------------------ *)
\* app_main up to optiga_crypto_init: a failed mount or create returns
AppMain ==
    /\ pc = "boot"
    /\ \E mount_ok \in BOOLEAN, init_ok \in BOOLEAN :
        pc' = IF mount_ok /\ init_ok THEN "provision" ELSE "aborted"
    /\ UNCHANGED <<generate_key_on_boot, s_optiga_status, s_log_seq, file, pending,
                   rng_count, clock, metadata_len, appLocals, encLocals, obsVars>>

\* the presence check made whatever the flag says
GenerateKeyIfEnabled_AlwaysCheck ==
    /\ pc = "provision"
    /\ pc' = "rm_mark"
    /\ UNCHANGED <<generate_key_on_boot, s_optiga_status, s_log_seq, file, pending,
                   rng_count, clock, metadata_len, appLocals, encLocals, obsVars>>

\* optiga_generate_key_if_enabled: the policy branch
GenerateKeyIfEnabled ==
    /\ pc = "provision"
    /\ pc' = IF generate_key_on_boot THEN "wm_mark" ELSE "rm_mark"
    /\ UNCHANGED <<generate_key_on_boot, s_optiga_status, s_log_seq, file, pending,
                   rng_count, clock, metadata_len, appLocals, encLocals, obsVars>>

\* optiga_generate_key_if_enabled returned true: app_main goes on
ProvReady == prov' = "Ready" /\ pc' = "boot_dump"
\* app_main going on after a failed provisioning
ProvFailed_Degraded == prov' = "Failed" /\ pc' = "boot_dump"

\* optiga_generate_key_if_enabled returned false: app_main returns
ProvFailed == prov' = "Failed" /\ pc' = "aborted"
\* optiga_key_ready returned false: the metadata is written next
KeyNotReady == prov' = prov /\ pc' = "wm_mark"

\* the length test inverted
KeyPresent_Inverted(ml) == ml = 0

\* optiga_key_ready: the test of the metadata length read back
KeyPresent(ml) == ml # 0

KeyReadyMark == pc = "rm_mark" /\ MarkBusy("rm_call") /\ UNCHANGED <<pt_buf, cipher_len>>

KeyReadyCall ==
    /\ pc = "rm_call"
    /\ \E accepted \in BOOLEAN :
        IF accepted
        THEN DriverAccepts("read_metadata", "rm_wait") /\ prov' = prov
        ELSE DriverRejects("read_metadata") /\ KeyNotReady
    /\ UNCHANGED <<enc_result, log>>
    /\ CallFrame

KeyReadyWait ==
    /\ pc = "rm_wait"
    /\ OptigaWaitReturns
    /\ IF ~OptigaWaitResult THEN KeyNotReady
       ELSE IF ~KeyPresent(metadata_len) THEN KeyNotReady
       ELSE ProvReady
    /\ UNCHANGED <<enc_result, log, record>>
    /\ WaitFrame

WriteMetadataMark == pc = "wm_mark" /\ MarkBusy("wm_call") /\ UNCHANGED <<pt_buf, cipher_len>>

WriteMetadataCall ==
    /\ pc = "wm_call"
    /\ \E accepted \in BOOLEAN :
        IF accepted
        THEN DriverAccepts("write_metadata", "wm_wait") /\ prov' = prov
        ELSE DriverRejects("write_metadata") /\ ProvFailed
    /\ UNCHANGED <<enc_result, log>>
    /\ CallFrame

\* the result of the wait for write-metadata not looked at
WriteMetadataWait_Continue ==
    /\ pc = "wm_wait"
    /\ OptigaWaitReturns
    /\ prov' = prov /\ pc' = "gk_mark"
    /\ UNCHANGED <<enc_result, log, record>>
    /\ WaitFrame

WriteMetadataWait ==
    /\ pc = "wm_wait"
    /\ OptigaWaitReturns
    /\ IF OptigaWaitResult THEN prov' = prov /\ pc' = "gk_mark" ELSE ProvFailed
    /\ UNCHANGED <<enc_result, log, record>>
    /\ WaitFrame

GenerateKeyMark == pc = "gk_mark" /\ MarkBusy("gk_call") /\ UNCHANGED <<pt_buf, cipher_len>>

GenerateKeyCall ==
    /\ pc = "gk_call"
    /\ \E accepted \in BOOLEAN :
        IF accepted
        THEN DriverAccepts("generate_key", "gk_wait") /\ prov' = prov
        ELSE DriverRejects("generate_key") /\ ProvFailed
    /\ UNCHANGED <<enc_result, log>>
    /\ CallFrame

GenerateKeyWait ==
    /\ pc = "gk_wait"
    /\ OptigaWaitReturns
    /\ IF OptigaWaitResult THEN ProvReady ELSE ProvFailed
    /\ UNCHANGED <<enc_result, log, record>>
    /\ WaitFrame

(* ------------------------------------------------------------------ *)
(* Log store: dump                                                      *)
(* ------------------------------------------------------------------ *)
\* print_log_file_hex: what it logs and the chunks it hands to the hex dump
PrintLogFileHex(open_ok) ==
    /\ log' = IF open_ok THEN <<<<"I", "raw file content (hex):">>>>
              ELSE <<<<"I", "no existing log file found.">>>>
    /\ dump_out' = IF open_ok THEN Chunks(file) ELSE <<>>

\* a call from app_main or command_loop starts: the automatic buffers of the
\* call before are gone
StartCommand(c) ==
    /\ cmd' = c
    /\ cmd_file' = file
    /\ cmd_submits' = NoSubmits
    /\ cmd_faults' = {}
    /\ rng_value' = <<>>
    /\ iv' = Uninit(AES_IV_BYTES)
    /\ pt_buf' = Uninit(PLAINTEXT_MAX)
    /\ ciphertext' = Uninit(PLAINTEXT_MAX)
    /\ cipher_len' = 0
    /\ record' = Uninit(RECORD_BYTES)

\* the command that just ended was abandoned with an error
CommandFailed ==
    \/ enc_result = "failed"
    \/ store_result \in {"open_failed", "short"}
    \/ \E i \in 1..Len(log) : log[i][1] = "E"
    \/ \E i \in 1..Len(log) : log[i] = <<"I", "no existing log file found.">>

\* the command loop comes back for the next character: what is remembered of
\* the commands before it
NoteHistory(next_trail) ==
    /\ trail' = next_trail
    /\ prev_failed' = CommandFailed

CmdFrame == UNCHANGED <<generate_key_on_boot, s_optiga_status, pending, rng_count,
                        metadata_len, prov, submits, wm_ok, boot_faults, last_iv,
                        ok_appends, short_bytes, file0>>

\* app_main after provisioning: print_log_file_hex, print_usage, command_loop
BootPrint ==
    /\ pc = "boot_dump"
    /\ \E open_ok \in BOOLEAN : PrintLogFileHex(open_ok)
    /\ pc' = "idle"
    /\ StartCommand("boot_print")
    /\ NoteHistory(0)
    /\ msg' = Uninit(PLAINTEXT_MAX) /\ written' = 0
    /\ enc_result' = "none" /\ store_result' = "none" /\ opened_w' = FALSE
    /\ UNCHANGED <<file, cleared, s_log_seq, clock>>
    /\ CmdFrame

(* ------------------------------------------------------------------ *)
(* Command loop                                                         *)
(* ------------------------------------------------------------------ *)
\* 'p' / 'P'
CmdPrint ==
    /\ pc = "idle"
    /\ \E open_ok \in BOOLEAN :
        /\ PrintLogFileHex(open_ok)
        /\ NoteHistory(IF open_ok /\ trail = 1 THEN 2
                       ELSE IF open_ok /\ trail = 3 /\ store_result = "ok" THEN 4
                       ELSE 0)
    /\ pc' = "idle"
    /\ StartCommand("print")
    /\ msg' = Uninit(PLAINTEXT_MAX) /\ written' = 0
    /\ enc_result' = "none" /\ store_result' = "none" /\ opened_w' = FALSE
    /\ UNCHANGED <<file, cleared, s_log_seq, clock>>
    /\ CmdFrame

\* 'c' / 'C' / '2': clear_log_file
CmdClear ==
    /\ pc = "idle"
    /\ \E open_ok \in BOOLEAN :
        /\ file' = IF open_ok THEN <<>> ELSE file
        /\ opened_w' = open_ok
        /\ cleared' = (cleared \/ open_ok)
        /\ store_result' = IF open_ok THEN "ok" ELSE "open_failed"
        /\ log' = IF open_ok THEN <<<<"I", "log cleared.">>>>
                  ELSE <<<<"E", "failed to open log file for clearing.">>>>
        /\ NoteHistory(IF open_ok THEN 1 ELSE 0)
    /\ pc' = "idle"
    /\ StartCommand("clear")
    /\ msg' = Uninit(PLAINTEXT_MAX) /\ written' = 0
    /\ enc_result' = "none"
    /\ dump_out' = <<>>
    /\ UNCHANGED <<s_log_seq, clock>>
    /\ CmdFrame

\* '\r' / '\n' (ignored) and any other character (warning and usage)
CmdOther ==
    /\ pc = "idle"
    /\ \E ch \in {"newline", "unknown"} :
        /\ StartCommand(ch)
        /\ log' = IF ch = "unknown" THEN <<<<"W", "unknown command">>>> ELSE <<>>
    /\ NoteHistory(0)
    /\ pc' = "idle"
    /\ msg' = Uninit(PLAINTEXT_MAX) /\ written' = 0
    /\ enc_result' = "none" /\ store_result' = "none" /\ opened_w' = FALSE
    /\ dump_out' = <<>>
    /\ UNCHANGED <<file, cleared, s_log_seq, clock>>
    /\ CmdFrame

(* ------------------------------------------------------------------ *)
(* Append: message, record codec, storage                               *)
(* ------------------------------------------------------------------ *)
\* encrypt_record returned false: append_encrypted_record logs and returns
EncodeFails(text) ==
    /\ enc_result' = "failed"
    /\ log' = log \o <<<<"E", text>>, <<"E", "encrypt_record failed">>>>
    /\ pc' = "idle"

\* 'a' / 'A' / '1': append_encrypted_record up to the call of encrypt_record,
\* whose record_len test passes for the 80-byte record buffer
CmdAppend ==
    /\ pc = "idle"
    /\ s_log_seq < MaxSeq
    /\ \E t \in Uptimes, fmt_ok \in BOOLEAN :
        /\ t >= clock
        /\ clock' = t
        /\ s_log_seq' = s_log_seq + 1
        /\ IF fmt_ok
           THEN /\ msg' = Snprintf(PLAINTEXT_MAX, FormatMsg(s_log_seq + 1, t)).buf
                /\ written' = Snprintf(PLAINTEXT_MAX, FormatMsg(s_log_seq + 1, t)).ret
                /\ log' = <<>>
                /\ pc' = IF RECORD_BYTES < AES_IV_BYTES + PLAINTEXT_MAX THEN "idle"
                         ELSE "rng_mark"
           ELSE /\ msg' = Uninit(PLAINTEXT_MAX) /\ written' = 0 - 1
                /\ log' = <<<<"E", "snprintf failed">>>>
                /\ pc' = "idle"
    /\ StartCommand("append")
    /\ NoteHistory(IF trail = 2 THEN 3 ELSE 0)
    /\ enc_result' = "none" /\ store_result' = "none" /\ opened_w' = FALSE
    /\ dump_out' = <<>>
    /\ UNCHANGED <<file, cleared>>
    /\ CmdFrame

\* optiga_rng_fill, called by encrypt_record for the IV
RngFillMark == pc = "rng_mark" /\ MarkBusy("rng_call") /\ UNCHANGED <<pt_buf, cipher_len>>

RngFillCall ==
    /\ pc = "rng_call"
    /\ \E accepted \in BOOLEAN :
        IF accepted
        THEN DriverAccepts("rng", "rng_wait") /\ UNCHANGED <<enc_result, log>>
        ELSE DriverRejects("rng") /\ EncodeFails("IV generation failed")
    /\ prov' = prov
    /\ CallFrame

\* a failed random request tried again
RngFillWait_Retry ==
    /\ pc = "rng_wait"
    /\ OptigaWaitReturns
    /\ pc' = IF OptigaWaitResult THEN "enc_mark" ELSE "rng_mark"
    /\ UNCHANGED <<enc_result, log>>
    /\ UNCHANGED <<prov, record>>
    /\ WaitFrame

RngFillWait ==
    /\ pc = "rng_wait"
    /\ OptigaWaitReturns
    /\ IF OptigaWaitResult
       THEN pc' = "enc_mark" /\ UNCHANGED <<enc_result, log>>
       ELSE EncodeFails("IV generation failed")
    /\ UNCHANGED <<prov, record>>
    /\ WaitFrame

\* memcpy(pt_buf, plaintext, pt_len) with pt_len beyond the 64 bytes of pt_buf
\* stores past the end of the array, which is undefined: the stray bytes land
\* in stack the function does not use again and it goes on, or the task
\* crashes
MemcpyOutcomes(pt_len) ==
    IF pt_len > PLAINTEXT_MAX THEN {"enc_call", "crashed"} ELSE {"enc_call"}

\* encrypt_record: pad the plaintext, mark the operation Busy
EncryptMark ==
    /\ pc = "enc_mark"
    /\ pt_buf' = PadPlaintext(msg, written)
    /\ cipher_len' = PLAINTEXT_MAX
    /\ \E next \in MemcpyOutcomes(written) : MarkBusy(next)

EncryptCall ==
    /\ pc = "enc_call"
    /\ \E accepted \in BOOLEAN :
        IF accepted
        THEN DriverAccepts("encrypt", "enc_wait") /\ UNCHANGED <<enc_result, log>>
        ELSE /\ DriverRejects("encrypt")
             /\ EncodeFails("optiga_crypt_symmetric_encrypt start failed")
    /\ prov' = prov
    /\ CallFrame

\* the length test left out
CipherLenOk_Any(cl) == TRUE

\* encrypt_record: the test of the ciphertext length reported back
CipherLenOk(cl) == cl = PLAINTEXT_MAX

EncryptWait ==
    /\ pc = "enc_wait"
    /\ OptigaWaitReturns
    /\ IF ~OptigaWaitResult
       THEN EncodeFails("optiga_crypt_symmetric_encrypt failed") /\ record' = record
       ELSE IF ~CipherLenOk(cipher_len)
       THEN EncodeFails("unexpected ciphertext length") /\ record' = record
       ELSE /\ record' = MakeRecord(iv, ciphertext)
            /\ enc_result' = "ok"
            /\ pc' = "store"
            /\ log' = log
    /\ prov' = prov
    /\ WaitFrame

\* append_encrypted_record after encrypt_record returned true:
\* fopen "ab", fwrite (its count is not looked at), fclose, ESP_LOGI
AppendStore ==
    /\ pc = "store"
    /\ \E open_ok \in BOOLEAN, n \in WriteCounts :
        IF open_ok
        THEN /\ file' = StoreWrite(file, record, n)
             /\ opened_w' = TRUE
             /\ store_result' = IF n = RECORD_BYTES THEN "ok" ELSE "short"
             /\ log' = Append(log, <<"I", "encrypted">>)
             /\ ok_appends' = IF n = RECORD_BYTES THEN ok_appends + 1 ELSE ok_appends
             /\ short_bytes' = IF n = RECORD_BYTES THEN short_bytes ELSE short_bytes + n
        ELSE /\ file' = file
             /\ opened_w' = FALSE
             /\ store_result' = "open_failed"
             /\ log' = Append(log, <<"E", "failed to open log file for append">>)
             /\ UNCHANGED <<ok_appends, short_bytes>>
    /\ last_iv' = SubSeq(record, 1, AES_IV_BYTES)
    /\ pc' = "idle"
    /\ UNCHANGED <<generate_key_on_boot, s_optiga_status, s_log_seq, pending, rng_count,
                   clock, metadata_len, appLocals, encLocals, prov, submits, wm_ok,
                   boot_faults, cmd_faults, cmd, cmd_submits, cmd_file, enc_result,
                   dump_out, rng_value, cleared, file0, trail, prev_failed>>

(* ------------------------------------------------------------------ *)
(* Specification                                                        *)
(* ------------------------------------------------------------------ *)
Next ==
    \/ AppMain
    \/ GenerateKeyIfEnabled
    \/ KeyReadyMark \/ KeyReadyCall \/ KeyReadyWait
    \/ WriteMetadataMark \/ WriteMetadataCall \/ WriteMetadataWait
    \/ GenerateKeyMark \/ GenerateKeyCall \/ GenerateKeyWait
    \/ BootPrint
    \/ CmdAppend \/ CmdClear \/ CmdPrint \/ CmdOther
    \/ RngFillMark \/ RngFillCall \/ RngFillWait
    \/ EncryptMark \/ EncryptCall \/ EncryptWait
    \/ AppendStore
    \/ OptigaCallback

Spec == Init /\ [][Next]_vars

\* the statements of the main task other than the read of a command
\* character: once reached they run, the task is never starved
ControlThread ==
    \/ AppMain
    \/ GenerateKeyIfEnabled
    \/ KeyReadyMark \/ KeyReadyCall \/ KeyReadyWait
    \/ WriteMetadataMark \/ WriteMetadataCall \/ WriteMetadataWait
    \/ GenerateKeyMark \/ GenerateKeyCall \/ GenerateKeyWait
    \/ BootPrint
    \/ RngFillMark \/ RngFillCall \/ RngFillWait
    \/ EncryptMark \/ EncryptCall \/ EncryptWait
    \/ AppendStore

\* the main task keeps running, and the secure element completes every
\* request it accepted
SpecFair ==
    /\ Init /\ [][Next]_vars
    /\ WF_vars(ControlThread)
    /\ WF_vars(OptigaCallback)

TypeOK ==
    /\ s_optiga_status \in {"SUCCESS", "BUSY", "ERROR"}
    /\ pending \in Kinds \cup {"none"}
    /\ prov \in {"Pending", "Ready", "Failed"}
    /\ s_log_seq \in 0..MaxSeq
    /\ Len(iv) = AES_IV_BYTES /\ Len(record) = RECORD_BYTES
    /\ Len(msg) = PLAINTEXT_MAX /\ Len(pt_buf) = PLAINTEXT_MAX

(* ------------------------------------------------------------------ *)
(* encrypt_record on its own                                            *)
(* ------------------------------------------------------------------ *)
\* the lengths encrypt_record is called with
PtLens == {0, 26, PLAINTEXT_MAX, PLAINTEXT_MAX + 1, PLAINTEXT_MAX + 6}

\* the state in which command_loop starts: the key was found present, the
\* log file exists and is empty
InitUnit ==
    /\ pc = "idle"
    /\ generate_key_on_boot = FALSE
    /\ s_optiga_status = "SUCCESS"
    /\ s_log_seq = 0
    /\ file = <<>>
    /\ pending = "none"
    /\ rng_count = 0
    /\ clock = 0
    /\ metadata_len = 8
    /\ msg = Uninit(PLAINTEXT_MAX) /\ written = 0
    /\ iv = Uninit(AES_IV_BYTES)
    /\ pt_buf = Uninit(PLAINTEXT_MAX)
    /\ ciphertext = Uninit(PLAINTEXT_MAX)
    /\ cipher_len = 0
    /\ record = Uninit(RECORD_BYTES)
    /\ prov = "Ready"
    /\ submits = [NoSubmits EXCEPT !["read_metadata"] = 1]
    /\ wm_ok = FALSE
    /\ boot_faults = <<>>
    /\ cmd_faults = {}
    /\ cmd = "boot_print"
    /\ cmd_submits = NoSubmits
    /\ cmd_file = file
    /\ enc_result = "none"
    /\ store_result = "none"
    /\ opened_w = FALSE
    /\ log = <<<<"I", "raw file content (hex):">>>>
    /\ dump_out = <<>>
    /\ rng_value = <<>>
    /\ last_iv = <<>>
    /\ ok_appends = 0
    /\ short_bytes = 0
    /\ cleared = FALSE
    /\ file0 = file
    /\ trail = 0
    /\ prev_failed = FALSE

\* encrypt_record(plaintext, pt_len, record, record_len) called with a
\* plaintext of any length; pc "idle" afterwards is its return of false,
\* pc "store" its return of true
EncryptRecordCall ==
    /\ pc \in {"idle", "store"}
    /\ submits["rng"] < MaxSeq
    /\ \E n \in PtLens, record_len \in {RECORD_BYTES - 1, RECORD_BYTES} :
        /\ msg' = [i \in 1..n |-> 65]
        /\ written' = n
        /\ pc' = IF record_len < AES_IV_BYTES + PLAINTEXT_MAX THEN "idle" ELSE "rng_mark"
        /\ enc_result' = IF record_len < AES_IV_BYTES + PLAINTEXT_MAX THEN "failed"
                         ELSE "none"
    /\ StartCommand("encode")
    /\ NoteHistory(0)
    /\ log' = <<>>
    /\ store_result' = "none" /\ opened_w' = FALSE
    /\ dump_out' = <<>>
    /\ UNCHANGED <<file, cleared, s_log_seq, clock>>
    /\ CmdFrame

NextCodec ==
    \/ EncryptRecordCall
    \/ RngFillMark \/ RngFillCall \/ RngFillWait
    \/ EncryptMark \/ EncryptCall \/ EncryptWait
    \/ OptigaCallback

SpecCodec == InitUnit /\ [][NextCodec]_vars

(* ------------------------------------------------------------------ *)
(* The message of append over the whole range of its two numbers        *)
(* ------------------------------------------------------------------ *)
\* numbers too wide for the checker's integers, as their decimal digits
UINT32_MAX == <<4, 2, 9, 4, 9, 6, 7, 2, 9, 5>>
INT64_MAX == <<9, 2, 2, 3, 3, 7, 2, 0, 3, 6, 8, 5, 4, 7, 7, 5, 8, 0, 7>>
Nines(d) == [i \in 1..d |-> 9]
PowerOfTen(d) == [i \in 1..(d + 1) |-> IF i = 1 THEN 1 ELSE 0]

\* values of s_log_seq after the increment: the smallest and the largest of
\* every number of digits
SeqSamples ==
    {<<0>>, UINT32_MAX} \cup {Nines(d) : d \in 1..(Len(UINT32_MAX) - 1)}
    \cup {PowerOfTen(d) : d \in 0..(Len(UINT32_MAX) - 1)}

\* values of esp_timer_get_time(), in microseconds and not negative: zero and
\* the largest of every number of digits
TimeSamples ==
    {<<0>>, INT64_MAX} \cup {Nines(d) : d \in 1..(Len(INT64_MAX) - 1)}

\* esp_timer_get_time() / 1000 on a non-negative number
DivBy1000(dec) == IF Len(dec) <= 3 THEN <<0>> ELSE SubSeq(dec, 1, Len(dec) - 3)

\* %lu / %lld of a non-negative number
Ascii(dec) == [i \in 1..Len(dec) |-> 48 + dec[i]]

\* append_encrypted_record up to the call of encrypt_record, for a counter
\* and a timer of any value
FormatCall ==
    /\ pc = "idle"
    /\ \E sq \in SeqSamples, us \in TimeSamples :
        /\ msg' = Snprintf(PLAINTEXT_MAX,
                           FormatDigits(Ascii(sq), Ascii(DivBy1000(us)))).buf
        /\ written' = Snprintf(PLAINTEXT_MAX,
                               FormatDigits(Ascii(sq), Ascii(DivBy1000(us)))).ret
    /\ pc' = "idle"
    /\ StartCommand("format")
    /\ NoteHistory(0)
    /\ log' = <<>>
    /\ enc_result' = "none" /\ store_result' = "none" /\ opened_w' = FALSE
    /\ dump_out' = <<>>
    /\ UNCHANGED <<file, cleared, s_log_seq, clock>>
    /\ CmdFrame

NextFormat == FormatCall

SpecFormat == InitUnit /\ [][NextFormat]_vars

(* ------------------------------------------------------------------ *)
(* Claims                                                               *)
(* ------------------------------------------------------------------ *)
HasFault(fs, k, what) == \E i \in 1..Len(fs) : fs[i] = <<k, what>>
Logged(level) == \E i \in 1..Len(log) : log[i][1] = level
LoggedText(text) == \E i \in 1..Len(log) : log[i][2] = text

\* C1 as stated: from an empty file and with no clear, the file length is
\* 80 times the number of appends that encoded, opened and wrote completely;
\* every other append contributes nothing.
C1_Growth_AsStated ==
    (file0 = <<>> /\ ~cleared) => Len(file) = ok_appends * RECORD_BYTES

\* C1 amended: from an empty file and with no clear, the file length is 80
\* times the number of complete appends plus the bytes left by appends whose
\* write was short; an append that failed in encoding or at the open, and a
\* dump, leave the file as it was.
C1_Growth ==
    /\ (file0 = <<>> /\ ~cleared) =>
           Len(file) = ok_appends * RECORD_BYTES + short_bytes
    /\ (enc_result = "failed" \/ store_result = "open_failed"
        \/ cmd \in {"print", "boot_print"}) => file = cmd_file

C1_Witness ==
    /\ file0 = <<>> /\ ~cleared
    /\ ok_appends = 1 /\ short_bytes = ShortWriteBytes
    /\ Len(file) = RECORD_BYTES + ShortWriteBytes

\* one step of the log store, for C2
C2_Step ==
    (short_bytes' = 0) =>
        \/ file' = file
        \/ /\ pc = "store"
           /\ Len(file') = Len(file) + RECORD_BYTES
           /\ SubSeq(file', 1, Len(file)) = file
        \/ /\ pc = "idle" /\ cmd' = "clear"
           /\ file' = <<>>

\* C2: while every write is complete, each step leaves the file as it was,
\* adds exactly one 80-byte record after the old content, or (clear only)
\* empties it; the file length is a multiple of 80 in every state.
C2_AppendOnly ==
    /\ [](short_bytes = 0 => Len(file) % RECORD_BYTES = 0)
    /\ [][C2_Step]_vars

C2_Witness ==
    /\ cleared /\ short_bytes = 0
    /\ cmd = "append" /\ store_result = "ok"
    /\ Len(cmd_file) = RECORD_BYTES
    /\ Len(file) = 2 * RECORD_BYTES

\* C3: a failed encode produces no record; a successful one yields 80 bytes,
\* the first 16 the value the RNG fill returned, the other 64 the stub
\* cipher's output over the zero-padded plaintext: plaintext XOR 0xFF, then 0xFF.
C3_RecordFormat ==
    /\ enc_result # "ok" => record = Uninit(RECORD_BYTES)
    /\ enc_result = "ok" =>
        /\ written <= PLAINTEXT_MAX
        /\ Len(record) = RECORD_BYTES
        /\ \A i \in 1..AES_IV_BYTES : record[i] = rng_value[i]
        /\ \A i \in 1..PLAINTEXT_MAX :
              record[AES_IV_BYTES + i] = IF i <= written THEN 255 - msg[i] ELSE 255

\* the end-to-end example: {"seq":1,"uptime_ms":532}, IV 0x00..0x0F
C3_Witness ==
    /\ pc = "store" /\ enc_result = "ok"
    /\ written = 25
    /\ SubSeq(msg, 1, 25) = FormatMsg(1, 532)
    /\ SubSeq(record, 1, AES_IV_BYTES) = [i \in 1..AES_IV_BYTES |-> i - 1]
    /\ record[AES_IV_BYTES + 25] = 255 - 125
    /\ record[AES_IV_BYTES + 26] = 255

\* C4: the IV of an encoded record is the value of the one RNG fill that was
\* submitted and completed with Success in that encode call; it differs from
\* the IV of the record encoded before; after a rejected or failed RNG fill
\* no symmetric-encrypt is submitted.
C4_IVFresh ==
    /\ enc_result = "ok" =>
        /\ cmd_submits["rng"] = 1
        /\ rng_value # <<>>
        /\ SubSeq(record, 1, AES_IV_BYTES) = rng_value
        /\ pc = "store" => SubSeq(record, 1, AES_IV_BYTES) # last_iv
    /\ (<<"rng", "rejected">> \in cmd_faults \/ <<"rng", "error">> \in cmd_faults) =>
        cmd_submits["encrypt"] = 0

C4_Witness ==
    /\ pc = "store" /\ enc_result = "ok"
    /\ last_iv = RngStub(0)
    /\ SubSeq(record, 1, AES_IV_BYTES) = RngStub(1)

\* C5: an append whose encode step met a rejected or failed RNG fill, a
\* rejected or failed encrypt, or a ciphertext length other than 64 neither
\* opens the file for writing nor changes it.
C5_EncodeFailureFrame ==
    (cmd = "append" /\ cmd_faults # {}) =>
        /\ file = cmd_file
        /\ ~opened_w
        /\ store_result = "none"

C5_Witness ==
    /\ cmd = "append" /\ pc = "idle" /\ enc_result = "failed"
    /\ <<"encrypt", "bad_len">> \in cmd_faults
    /\ Len(file) = RECORD_BYTES

\* positions of the control thread inside optiga_generate_key_if_enabled
ProvPcs == {"provision", "rm_mark", "rm_call", "rm_wait", "wm_mark", "wm_call",
            "wm_wait", "gk_mark", "gk_call", "gk_wait"}

\* the read-metadata request was accepted and completed with Success and a
\* non-empty blob
ReadMetadataOk ==
    /\ submits["read_metadata"] = 1
    /\ pending # "read_metadata"
    /\ \A i \in 1..Len(boot_faults) : boot_faults[i][1] # "read_metadata"

\* C6: non-destructive policy, read-metadata accepted, Success, non-empty:
\* provisioning is Ready as soon as the wait has returned, and no
\* write-metadata and no generate-key request is ever made in the boot.
C6_KeyPresentIdempotent ==
    (~generate_key_on_boot /\ ReadMetadataOk) =>
        /\ submits["write_metadata"] = 0
        /\ submits["generate_key"] = 0
        /\ prov # "Failed"
        /\ pc # "rm_wait" => prov = "Ready"

C6_Witness ==
    /\ ~generate_key_on_boot /\ ReadMetadataOk
    /\ prov = "Ready"
    /\ cmd = "append" /\ store_result = "ok"
    /\ s_log_seq = MaxSeq

\* C7: non-destructive policy, existence check failed (read-metadata rejected,
\* Error, or empty) and nothing refused or failed afterwards: provisioning does
\* not fail, it has ended in Ready once the control thread is past it, and then
\* exactly one write-metadata and one generate-key were requested; under that
\* policy neither is ever requested twice, and generate-key is requested only
\* after a write-metadata completed with Success.
C7_EmptySlotProvisioning ==
    /\ ~generate_key_on_boot =>
        /\ submits["write_metadata"] <= 1
        /\ submits["generate_key"] <= 1
    /\ submits["generate_key"] > 0 => wm_ok
    /\ (~generate_key_on_boot /\ Len(boot_faults) = 1
        /\ boot_faults[1][1] = "read_metadata") =>
        /\ prov # "Failed"
        /\ pc \notin ProvPcs => prov = "Ready"
        /\ prov = "Ready" =>
            /\ submits["write_metadata"] = 1
            /\ submits["generate_key"] = 1

C7_Witness ==
    /\ ~generate_key_on_boot
    /\ boot_faults = <<<<"read_metadata", "empty">>>>
    /\ prov = "Ready" /\ pc = "idle"
    /\ submits["write_metadata"] = 1 /\ submits["generate_key"] = 1

\* a write-metadata or generate-key request was rejected or completed with Error
ProvisioningFault ==
    \E k \in {"write_metadata", "generate_key"}, what \in {"rejected", "error"} :
        HasFault(boot_faults, k, what)

\* an event action has happened or is under way
EventActionSeen ==
    \/ submits["rng"] > 0
    \/ submits["encrypt"] > 0
    \/ cmd # "none"
    \/ opened_w
    \/ file # file0
    \/ pc \in {"idle", "rng_mark", "rng_call", "rng_wait", "enc_mark", "enc_call",
               "enc_wait", "store"}

\* once Ready: provisioning stays Ready and requests nothing more
C8_Step ==
    prov = "Ready" =>
        /\ prov' = "Ready"
        /\ submits'["read_metadata"] = submits["read_metadata"]
        /\ submits'["write_metadata"] = submits["write_metadata"]
        /\ submits'["generate_key"] = submits["generate_key"]

\* C8: a rejected or failed write-metadata or generate-key ends provisioning in
\* Failed with app_main returned; event actions happen only when provisioning
\* is Ready; once Ready, no read-metadata, write-metadata or generate-key is
\* requested again.
C8_FatalProvisioning ==
    /\ []((ProvisioningFault /\ pc \notin ProvPcs) => (prov = "Failed" /\ pc = "aborted"))
    /\ [](prov = "Failed" => pc = "aborted")
    /\ [](EventActionSeen => prov = "Ready")
    /\ [][C8_Step]_vars

C8_Witness ==
    /\ HasFault(boot_faults, "generate_key", "error")
    /\ prov = "Failed" /\ pc = "aborted"
    /\ wm_ok

\* C9: an append whose storage step could not open the file, or wrote fewer
\* than 80 bytes, is reported as failed and not as a successful append.
C9_AppendFailureReported ==
    (cmd = "append" /\ store_result \in {"open_failed", "short"}) =>
        /\ Logged("E")
        /\ ~LoggedText("encrypted")

\* C10: a dump that reads a file whose length is not a multiple of 80 flags
\* it as corrupted instead of emitting its bytes as records.
C10_CorruptionFlagged ==
    (/\ cmd \in {"print", "boot_print"}
     /\ LoggedText("raw file content (hex):")
     /\ Len(cmd_file) % RECORD_BYTES # 0) =>
        /\ Logged("E") \/ Logged("W")
        /\ dump_out = <<>>

RECURSIVE Flatten(_)
\* the bytes a dump has put out, chunk after chunk
Flatten(chunks) ==
    IF chunks = <<>> THEN <<>> ELSE Head(chunks) \o Flatten(Tail(chunks))

\* C11 as the claim words it: a dump right after a successful clear puts out
\* no chunk, and a dump right after the successful append that follows puts
\* out exactly one chunk of 80 bytes.
C11_ClearResets_AsStated ==
    /\ trail = 2 => dump_out = <<>>
    /\ trail = 4 => (Len(dump_out) = 1 /\ Len(dump_out[1]) = RECORD_BYTES)

\* C11: a dump right after a successful clear puts out no chunk, whatever the
\* file held before; a dump right after the successful append that follows
\* puts out exactly the one 80-byte record of that append, in chunks of at
\* most 32 bytes (32, 32 and 16 bytes).
C11_ClearResets ==
    /\ trail = 2 => (dump_out = <<>> /\ file = <<>>)
    /\ trail = 4 =>
        /\ Len(file) = RECORD_BYTES
        /\ SubSeq(file, 1, AES_IV_BYTES) = last_iv
        /\ Flatten(dump_out) = file
        /\ Len(dump_out) = 3
        /\ \A i \in 1..Len(dump_out) : Len(dump_out[i]) <= DumpBufBytes
        /\ Len(dump_out[1]) = DumpBufBytes /\ Len(dump_out[3]) = AES_IV_BYTES

C11_Witness ==
    /\ trail = 4
    /\ file0 = OldRecord
    /\ Len(dump_out) = 3

\* C12: encrypt_record called with a plaintext longer than 64 bytes returns
\* false before a random or an encrypt request is made, and copies nothing
\* beyond the 64 bytes of the padded buffer.
C12_LengthGuard ==
    (cmd = "encode" /\ written > PLAINTEXT_MAX) =>
        /\ cmd_submits["rng"] = 0
        /\ cmd_submits["encrypt"] = 0
        /\ pc \notin {"enc_call", "enc_wait", "store", "crashed"}
        /\ enc_result # "ok"

\* C13: a command that failed leaves the command loop ready for the next
\* command; an append that follows a failed command and meets no refusal or
\* error of the secure element, a file that opens and a complete write,
\* stores exactly its one record; an append makes at most one random request,
\* at most one encrypt request and at most one write.
C13_ErrorIsolation ==
    /\ (CommandFailed /\ pc # "crashed") => pc = "idle"
    /\ cmd = "append" =>
        /\ cmd_submits["rng"] <= 1
        /\ cmd_submits["encrypt"] <= 1
        /\ cmd_submits["read_metadata"] = 0
        /\ cmd_submits["write_metadata"] = 0
        /\ cmd_submits["generate_key"] = 0
        /\ Len(file) <= Len(cmd_file) + RECORD_BYTES
    /\ (/\ cmd = "append" /\ prev_failed /\ pc = "idle"
        /\ cmd_faults = {} /\ written >= 0
        /\ store_result \notin {"open_failed", "short"}) =>
            /\ store_result = "ok"
            /\ cmd_submits["rng"] = 1 /\ cmd_submits["encrypt"] = 1
            /\ file = cmd_file \o record

C13_Witness ==
    /\ cmd = "append" /\ prev_failed /\ pc = "idle"
    /\ store_result = "ok"
    /\ Len(file) = Len(cmd_file) + RECORD_BYTES

\* C14: in a build with GENERATE_KEY_ON_BOOT set, provisioning never requests
\* a metadata read; it requests the metadata write once and requests the key
\* generation only after that write completed with Success, and it is Ready
\* only after both were requested.
C14_DestructivePolicy ==
    generate_key_on_boot =>
        /\ submits["read_metadata"] = 0
        /\ pc \notin {"rm_mark", "rm_call", "rm_wait"}
        /\ submits["write_metadata"] <= 1 /\ submits["generate_key"] <= 1
        /\ (submits["generate_key"] > 0 \/ pc \in {"gk_mark", "gk_call", "gk_wait"}) =>
            /\ wm_ok
            /\ submits["write_metadata"] = 1
            /\ ~HasFault(boot_faults, "write_metadata", "error")
            /\ ~HasFault(boot_faults, "write_metadata", "rejected")
        /\ prov = "Ready" =>
            (submits["write_metadata"] = 1 /\ submits["generate_key"] = 1)

C14_Witness ==
    /\ generate_key_on_boot
    /\ prov = "Ready"
    /\ submits["generate_key"] = 1
    /\ file0 = OldRecord

\* positions of the control thread around a request
MarkPcs == {"rm_mark", "wm_mark", "gk_mark", "rng_mark", "enc_mark"}
CallPcs == {"rm_call", "wm_call", "gk_call", "rng_call", "enc_call"}
WaitPcs == {"rm_wait", "wm_wait", "gk_wait", "rng_wait", "enc_wait"}

\* a request of any kind is handed to the driver in this step
SubmitStep == \E k \in Kinds : submits'[k] = submits[k] + 1

\* C15: at most one secure-element operation is outstanding: a request is
\* handed to the driver only when no accepted request is still waiting for
\* its completion, and while one is waiting the control thread is in the
\* wait of that request.
C15_SingleInFlight ==
    /\ [](pc \in MarkPcs \cup CallPcs => pending = "none")
    /\ [](pending # "none" => pc \in WaitPcs)
    /\ [][SubmitStep => (pending = "none" /\ pc \in CallPcs)]_vars
    /\ [][(SubmitStep /\ pending' # "none") => pc' \in WaitPcs]_vars

C15_Witness ==
    /\ pending = "encrypt" /\ pc = "enc_wait"
    /\ submits["rng"] = 2

\* the wait that follows a request of each kind
WaitPc == [k \in Kinds |->
             CASE k = "read_metadata" -> "rm_wait"
               [] k = "write_metadata" -> "wm_wait"
               [] k = "generate_key" -> "gk_wait"
               [] k = "rng" -> "rng_wait"
               [] k = "encrypt" -> "enc_wait"]

\* the driver or the secure element has reported this about a request of kind k
FaultNoted(k, what) == HasFault(boot_faults, k, what) \/ <<k, what>> \in cmd_faults

\* C16: while an accepted request has not completed, the status the waiter
\* polls is BUSY, so optiga_wait cannot return on the status of an earlier
\* operation; once the callback has run, the status is the one it delivered
\* for this request and is not BUSY, so the completion is not lost; the
\* caller goes on as after a success exactly when that status was Success.
C16_CompletionHandOff ==
    /\ \A k \in Kinds :
        pc = WaitPc[k] =>
            /\ pending \in {k, "none"}
            /\ pending = k => s_optiga_status = "BUSY"
            /\ pending = "none" =>
                /\ s_optiga_status # "BUSY"
                /\ s_optiga_status = "ERROR" <=> FaultNoted(k, "error")
    /\ pc \in {"enc_mark", "enc_call", "enc_wait", "store"} =>
        (rng_value # <<>> /\ ~FaultNoted("rng", "error"))
    /\ enc_result = "ok" => (~FaultNoted("rng", "error") /\ ~FaultNoted("encrypt", "error"))
    /\ pc \in {"gk_mark", "gk_call", "gk_wait"} =>
        (wm_ok /\ ~FaultNoted("write_metadata", "error"))
    /\ prov = "Ready" =>
        (~FaultNoted("write_metadata", "error") /\ ~FaultNoted("generate_key", "error"))
    /\ (FaultNoted("rng", "error") /\ pc # "rng_wait") => enc_result = "failed"
    /\ (FaultNoted("encrypt", "error") /\ pc # "enc_wait") => enc_result = "failed"
    /\ (FaultNoted("write_metadata", "error") /\ pc # "wm_wait") => prov = "Failed"
    /\ (FaultNoted("generate_key", "error") /\ pc # "gk_wait") => prov = "Failed"
    /\ (FaultNoted("read_metadata", "error") /\ pc # "rm_wait") =>
        (pc \in {"wm_mark", "wm_call"} \/ submits["write_metadata"] = 1)

C16_Witness ==
    /\ pc = "enc_wait" /\ pending = "none"
    /\ s_optiga_status = "ERROR"
    /\ FaultNoted("encrypt", "error")
    /\ submits["encrypt"] = 2

\* C17: optiga_wait has no timeout: while an accepted request has not
\* completed, the only step there is is its completion, so the control thread
\* stays in the wait and no command is processed; when every accepted
\* request completes, every wait returns and every append command comes back
\* to the command loop, stored or failed.
C17_UnboundedWait ==
    /\ [][(pc \in WaitPcs /\ pending # "none") =>
            (pending' = "none" /\ pc' = pc /\ cmd' = cmd /\ s_log_seq' = s_log_seq)]_vars
    /\ [](pc \in WaitPcs /\ pending # "none" => ~OptigaWaitReturns)
    /\ (pc \in WaitPcs) ~> (pc \notin WaitPcs)
    /\ (cmd = "append" /\ pc # "idle") ~>
           (cmd = "append" /\ pc = "idle" /\ (store_result = "ok" \/ CommandFailed))

C17_Witness ==
    /\ cmd = "append" /\ pc = "rng_wait"
    /\ pending = "rng" /\ s_optiga_status = "BUSY"
    /\ prev_failed

\* the control thread is outside every request and at least one was made
AtRest ==
    /\ pc \in {"boot_dump", "idle", "store", "aborted"}
    /\ pending = "none"
    /\ \E k \in Kinds : submits[k] > 0

\* C18 as the claim words it: whenever no operation is outstanding the status
\* has been reset to Idle; it is never a leftover Busy, Success or Error.
C18_StatusLifecycle_AsStated ==
    AtRest => s_optiga_status = "IDLE"

\* C18: the status is BUSY from the statement before a request until the
\* completion callback, which stores Success or Error; nothing else changes
\* it: the wait leaves the stored status in place and a rejected request
\* leaves BUSY in place, until the next request sets BUSY again.  There is
\* no Idle value.
C18_StatusLifecycle ==
    /\ [](s_optiga_status \in {"SUCCESS", "BUSY", "ERROR"})
    /\ [](pending # "none" => s_optiga_status = "BUSY")
    /\ [](pc \in CallPcs => s_optiga_status = "BUSY")
    /\ [][s_optiga_status' # s_optiga_status =>
            \/ pc \in MarkPcs /\ s_optiga_status' = "BUSY"
            \/ /\ pending # "none" /\ pending' = "none"
               /\ s_optiga_status' \in {"SUCCESS", "ERROR"}]_vars
    /\ [][(SubmitStep /\ pending' = "none") => s_optiga_status' = "BUSY"]_vars
    /\ [][(pc \in WaitPcs /\ pc' # pc) =>
            (s_optiga_status' = s_optiga_status /\ s_optiga_status # "BUSY")]_vars

C18_Witness ==
    /\ AtRest /\ pc = "idle" /\ cmd = "append"
    /\ s_optiga_status = "BUSY"
    /\ <<"encrypt", "rejected">> \in cmd_faults

\* the bytes stored in the file since the last clear of this boot, or since
\* boot when there was none
SinceClear == IF cleared THEN file ELSE SubSeq(file, Len(file0) + 1, Len(file))

\* the seq field of the n-th 80-byte record of f, read back through the
\* inverse of the cipher: it follows the 7 characters {"seq":
SeqOfRecord(f, n) ==
    ParseDec([i \in 1..PLAINTEXT_MAX |->
                 255 - f[(n - 1) * RECORD_BYTES + AES_IV_BYTES + i]], 8, 0)

StoredSeqs == [n \in 1..(Len(SinceClear) \div RECORD_BYTES) |-> SeqOfRecord(SinceClear, n)]

\* the step in which command_loop reads an append command
AppendStep == pc = "idle" /\ cmd' = "append"

\* C19: s_log_seq is 0 until the first append command; each append command
\* adds exactly one to it before the message is formatted, whatever becomes
\* of the command, and nothing else changes it; the message carries the new
\* value; so, as long as every write was complete, the seq values of the
\* records stored since the last clear are strictly increasing in file order
\* and none exceeds the counter.
C19_SequenceNumbers ==
    /\ [](cmd \in {"none", "boot_print"} => s_log_seq = 0)
    /\ [][IF AppendStep THEN s_log_seq' = s_log_seq + 1
                        ELSE s_log_seq' = s_log_seq]_vars
    /\ [][(AppendStep /\ written' >= 0) => ParseDec(msg', 8, 0) = s_log_seq']_vars
    /\ [](short_bytes = 0 =>
            /\ \A n \in 1..Len(StoredSeqs) : StoredSeqs[n] \in 1..s_log_seq
            /\ \A m, n \in 1..Len(StoredSeqs) : m < n => StoredSeqs[m] < StoredSeqs[n])

C19_Witness ==
    /\ short_bytes = 0 /\ file0 = OldRecord /\ ~cleared
    /\ StoredSeqs = <<1, 2>>

\* C20: for every value of the 32-bit counter and every non-negative 64-bit
\* timer value divided by 1000, the length snprintf returns for the message
\* is at most 64 (it is at most 47, so the message is not truncated either),
\* and so the memcpy of that many bytes into pt_buf stays inside its 64
\* bytes.
C20_CallerLengthBound ==
    cmd = "format" =>
        /\ written >= 0
        /\ written <= PLAINTEXT_MAX
        /\ written < PLAINTEXT_MAX /\ msg[written + 1] = 0 /\ msg[written] = 125
        /\ MemcpyOutcomes(written) = {"enc_call"}
        /\ \A i \in 1..PLAINTEXT_MAX :
              PadPlaintext(msg, written)[i] = (IF i <= written THEN msg[i] ELSE 0)

\* the longest message: both numbers at their largest
C20_Witness ==
    /\ cmd = "format"
    /\ written = 7 + Len(UINT32_MAX) + 13 + (Len(INT64_MAX) - 3) + 1
    /\ SubSeq(msg, 8, 7 + Len(UINT32_MAX)) = Ascii(UINT32_MAX)

====
